---- MODULE Spec2Model ----
(***************************************************************************)
(* Model of the incremental Steam store scanner                            *)
(* (src/steam_new_store_rss.py): the resilient fetch layer, the three      *)
(* per-run phases (new arrivals, pending retries, rolling window), the     *)
(* bounded event lists and the temp-file + rename persistence.             *)
(* Python lists are sequences (index i in Python is index i+1 here),       *)
(* dicts are functions whose DOMAIN is the key set.                        *)
(***************************************************************************)
EXTENDS Integers, Sequences, FiniteSets, TLC

\* ------------------------------------------------------------------ bounds
MaxId == 3          \* identifiers are 1..MaxId
MaxRuns == 2        \* number of runs explored from the default state
MaxBatch == 2       \* largest --crawl-batch value explored
max_items == 2      \* --max-items
max_updates == 1    \* --max-updates
max_new == 2        \* --max-new
pending_retry == 1  \* --pending-retry
HARD_LIMIT == 2     \* main.py: identifiers per run (2000 in the source)
RECENT_LIMIT == 2   \* safe_state.py: remembered identifiers (3000 in the source)
MaxRequests == 2    \* logical requests followed through the request layer


\* ------------------------------------------------------------ Python lists
\* s[lo:hi] for 0 <= lo, 0 <= hi (0-based, hi exclusive, clamped)
PySlice(s, lo, hi) ==
    LET h == IF hi < Len(s) THEN hi ELSE Len(s)
    IN  IF lo >= h THEN << >> ELSE [i \in 1..(h - lo) |-> s[lo + i]]

\* variant: the slice is forgotten
PyHead_whole(s, n) == s

\* s[:n] for any integer n (a negative n counts from the end)
PyHead(s, n) ==
    IF n >= 0 THEN PySlice(s, 0, n)
    ELSE IF Len(s) + n <= 0 THEN << >> ELSE PySlice(s, 0, Len(s) + n)

\* s[n:] for n >= 0
PyTail(s, n) == PySlice(s, n, Len(s))

SeqToSet(s) == {s[i] : i \in 1..Len(s)}

\* all orderings of a sequence's elements (the outcomes of random.shuffle)
Perms(s) ==
    {[i \in 1..Len(s) |-> s[f[i]]] :
        f \in {g \in [1..Len(s) -> 1..Len(s)] :
                  \A i, j \in 1..Len(s) : i # j => g[i] # g[j]}}

\* ------------------------------------------------------------------- HTTP
\* One HTTP reply of the remote side, as urlopen reports it.
\*   "ok"      200, appdetails node with success and non-empty data
\*   "nodesc"  as "ok" but the record has an empty short_description
\*   "nodata"  200, node missing / success false / empty data
\*   "429"     HTTPError 429 (the remote side throttles)
\*   "503"     HTTPError 502, 503 or 504
\*   "500"     HTTPError with another server-error code (500)
\*   "404"     HTTPError with a client-error code other than 429 (403, 404)
\*   "urlerr"  URLError
\*   "badjson" 200 with a body that is not JSON
\*   "timeout" TimeoutError while the body is read
\*   "reset"   another exception while the body is read (ConnectionResetError)
Replies ==
    {"ok", "nodesc", "nodata", "429", "503", "500", "404", "urlerr",
     "badjson", "timeout", "reset"}

max_retries == 4

RetryableCode(r) == r \in {"429", "503"}

\* http_get_raw: replies[a+1] is the reply to attempt a (0-based).
\* Result: raised, the body when not raised, the number of attempts made,
\* and whether a 429 set _slow_mode_until.
RECURSIVE http_get_raw_from(_, _, _)
http_get_raw_from(replies, attempt, slow) ==
    LET r == replies[attempt + 1] IN
    IF r \in {"ok", "nodesc", "nodata", "badjson"}
    THEN [raised |-> FALSE, body |-> r, attempts |-> attempt + 1, slow |-> slow]
    ELSE IF r \in {"429", "503", "500", "404"}
    THEN IF RetryableCode(r) /\ attempt < max_retries
         THEN http_get_raw_from(replies, attempt + 1, slow \/ r = "429")
         ELSE [raised |-> TRUE, body |-> r, attempts |-> attempt + 1, slow |-> slow]
    ELSE IF r = "urlerr"
    THEN IF attempt < max_retries
         THEN http_get_raw_from(replies, attempt + 1, slow)
         ELSE [raised |-> TRUE, body |-> r, attempts |-> attempt + 1, slow |-> slow]
    ELSE \* no except clause catches it
         [raised |-> TRUE, body |-> r, attempts |-> attempt + 1, slow |-> slow]

http_get_raw(replies) == http_get_raw_from(replies, 0, FALSE)

\* ------------------------------------------------------------- Storefront
\* A locale is <<cc, lang>>.
cc_primary == "jp"
lang_primary == "ja"
FallbackLocales == << <<"jp", "ja">>, <<"us", "en">>, <<"de", "de">>, <<"gb", "en">> >>
Locales == SeqToSet(FallbackLocales) \cup {<<cc_primary, lang_primary>>}

\* The remote side during one fetch: for each locale the replies it gives
\* to attempts 0..max_retries of a request, and the record it serves.
ConstReplies(r) == [a \in 1..(max_retries + 1) |-> r]

\* fetch_appdetails_once: (raised, ok, data).  data is the served record
\* with its short_description present or empty.  http_get_json (lines
\* 64-67) raises on a body that is not JSON.
fetch_appdetails_once(env, cc, lang) ==
    LET res == http_get_raw(env.replies[<<cc, lang>>]) IN
    IF res.raised \/ res.body = "badjson" THEN [raised |-> TRUE, ok |-> FALSE, data |-> env.rec, desc |-> FALSE]
    ELSE IF res.body = "nodata"
         THEN [raised |-> FALSE, ok |-> FALSE, data |-> env.rec, desc |-> FALSE]
         ELSE [raised |-> FALSE, ok |-> TRUE, data |-> env.rec, desc |-> (res.body = "ok")]

\* the for loop of fetch_appdetails over the fallback list, from position i
RECURSIVE fetch_fallbacks(_, _, _, _)
fetch_fallbacks(env, cc_p, lang_p, i) ==
    IF i > Len(FallbackLocales)
    THEN [raised |-> FALSE, ok |-> FALSE, data |-> env.rec, desc |-> FALSE]
    ELSE LET loc == FallbackLocales[i] IN
         IF loc[1] = cc_p /\ loc[2] = lang_p
         THEN fetch_fallbacks(env, cc_p, lang_p, i + 1)
         ELSE LET r == fetch_appdetails_once(env, loc[1], loc[2]) IN
              IF ~r.raised /\ r.ok THEN r
              ELSE fetch_fallbacks(env, cc_p, lang_p, i + 1)

fetch_appdetails(env, cc_p, lang_p) ==
    LET r == fetch_appdetails_once(env, cc_p, lang_p) IN
    IF r.raised THEN r
    ELSE IF r.ok THEN r
    ELSE fetch_fallbacks(env, cc_p, lang_p, 1)

\* get_short_description: raises iff the record has no description and the
\* extra us/en request raises.
get_short_description_raises(env, r) ==
    ~r.desc /\ fetch_appdetails_once(env, "us", "en").raised

\* build_new_item: the event record of identifier aid (guid and link are
\* both determined by aid), or an exception out of get_short_description.
build_new_item_raises(env, r) == get_short_description_raises(env, r)

build_new_item(aid, now_iso) == [aid |-> aid, pubDate |-> now_iso]

\* the dedup test of main: any("/app/%d/" % aid in x["link"] for x in items)
link_in_items(aid, items) == \E i \in 1..Len(items) : items[i].aid = aid

\* -------------------------------------------------------- Diff & Snapshot
\* Raw records served by the remote side: price text and the language
\* tokens of supported_languages in the order the store lists them.
Rec1 == [price |-> "1000", langs |-> <<"english">>]
Rec2 == [price |-> "1000", langs |-> <<"japanese", "english">>]
Records == {Rec1, Rec2}

LangRank(l) == IF l = "english" THEN 1 ELSE IF l = "japanese" THEN 2 ELSE 3

\* sorted(set(xs)) for language tokens
RECURSIVE SortedOfSet(_)
SortedOfSet(S) ==
    IF S = {} THEN << >>
    ELSE LET m == CHOOSE x \in S : \A y \in S : LangRank(x) <= LangRank(y)
         IN  <<m>> \o SortedOfSet(S \ {m})

\* variant: the tokens are kept as the store lists them
normalize_languages_as_listed(langs) == langs

normalize_languages(langs) == SortedOfSet(SeqToSet(langs))

\* sha1 of the short description: one digest per distinct text
sha1(desc) == IF desc THEN "sha1:text" ELSE "sha1:empty"

\* extract_snapshot, restricted to the fields that vary in this model
extract_snapshot(r) ==
    [price |-> r.data.price,
     short_description_hash |-> sha1(r.desc),
     supported_languages |-> normalize_languages(r.data.langs)]

\* ", ".join(xs) as the sequence of its pieces
RECURSIVE JoinComma(_)
JoinComma(xs) ==
    IF Len(xs) = 0 THEN << >>
    ELSE IF Len(xs) = 1 THEN <<xs[1]>>
    ELSE <<xs[1], ", ">> \o JoinComma(Tail(xs))

\* keys of a snapshot in sorted() order
SnapKeys == <<"price", "short_description_hash", "supported_languages">>

RenderField(k, v) == IF k = "supported_languages" THEN JoinComma(v) ELSE <<v>>

RECURSIVE diff_snap_from(_, _, _)
diff_snap_from(old, new, i) ==
    IF i > Len(SnapKeys) THEN << >>
    ELSE LET k == SnapKeys[i] IN
         (IF old[k] # new[k]
          THEN << <<k, RenderField(k, old[k]), RenderField(k, new[k])>> >>
          ELSE << >>) \o diff_snap_from(old, new, i + 1)

\* variant: a tuple for every field, changed or not
diff_snap_every_field(old, new) ==
    [i \in 1..Len(SnapKeys) |->
        <<SnapKeys[i], RenderField(SnapKeys[i], old[SnapKeys[i]]),
          RenderField(SnapKeys[i], new[SnapKeys[i]])>>]

diff_snap(old, new) == diff_snap_from(old, new, 1)

build_update_item(aid, changes, now_iso) ==
    [aid |-> aid, changes |-> changes, pubDate |-> now_iso]

\* ---------------------------------------------------------------- State I/O
EmptyMap == [x \in {} |-> 0]

Put(f, k, v) == [x \in (DOMAIN f) \cup {k} |-> IF x = k THEN v ELSE f[x]]

DefaultState ==
    [seen |-> EmptyMap, pending |-> << >>, items |-> << >>, updates |-> << >>,
     snapshots |-> EmptyMap, applist |-> << >>, crawl_cursor |-> 0]

\* A file: absent, being written (not yet complete), or complete.
NoFile == [exists |-> FALSE, complete |-> FALSE, content |-> DefaultState]

load_state(fs) == IF ~fs.canon.exists THEN DefaultState ELSE fs.canon.content

\* variant: an unparseable file is read as the default state
load_state_raises_never(fs) == FALSE

\* line 266: json.load raises on a file that is not complete JSON
load_state_raises(fs) == fs.canon.exists /\ ~fs.canon.complete

CorruptFile == [exists |-> TRUE, complete |-> FALSE, content |-> DefaultState]

\* A seen entry as an earlier version stored it: the identifier mapped
\* directly to a bare value, not to {published, detected_at}.  The bare value
\* is wrapped in a record so that it can be told from a structured entry.
LegacySeenEntry == [bare |-> TRUE]

\* a state file whose seen-set is such a direct mapping
LegacyFile ==
    [exists |-> TRUE, complete |-> TRUE,
     content |-> [DefaultState EXCEPT !.seen = [a \in {1} |-> LegacySeenEntry],
                                      !.applist = <<1>>]]

\* variant: the state file itself is opened for writing
save_state_open_inplace(f, s) ==
    [f EXCEPT !.canon = [exists |-> TRUE, complete |-> FALSE, content |-> s],
               !.tmp = [exists |-> TRUE, complete |-> FALSE, content |-> s]]

\* save_state, line 270: open(tmp, "w") truncates the temp file and
\* json.dump starts writing s into it
save_state_open(f, s) ==
    [f EXCEPT !.tmp = [exists |-> TRUE, complete |-> FALSE, content |-> s]]

\* save_state, line 270: json.dump finished and the with block closed the file
save_state_dump(fs) == [fs EXCEPT !.tmp.complete = TRUE]

\* save_state, line 271: os.replace(tmp, p)
save_state_replace(fs) == [canon |-> fs.tmp, tmp |-> NoFile]

\* ------------------------------------------------------- remote behaviours
\* The remote side during one fetch_appdetails call (and the extra us/en
\* request of get_short_description that may follow it).
EnvOf(p, u, o, rec) ==
    [replies |-> [loc \in Locales |->
                    IF loc = <<cc_primary, lang_primary>> THEN p
                    ELSE IF loc = <<"us", "en">> THEN u ELSE o],
     rec |-> rec]

\* The behaviours explored for a fetch while the store serves record rec:
\* visible in every locale; visible but without description while the us/en
\* endpoint answers 500; rate limited throughout; not visible; visible only
\* in the later fallback locales; visible after three retried failures.
Envs(rec) ==
    { EnvOf(ConstReplies("ok"), ConstReplies("ok"), ConstReplies("ok"), rec),
      EnvOf(ConstReplies("nodesc"), ConstReplies("500"), ConstReplies("nodata"), rec),
      EnvOf(ConstReplies("429"), ConstReplies("429"), ConstReplies("429"), rec),
      EnvOf(ConstReplies("nodata"), ConstReplies("nodata"), ConstReplies("nodata"), rec),
      EnvOf(ConstReplies("nodata"), ConstReplies("urlerr"), ConstReplies("ok"), rec),
      EnvOf(<<"503", "429", "urlerr", "ok", "ok">>, ConstReplies("ok"), ConstReplies("ok"), rec) }

AllRateLimited(env) ==
    \A loc \in Locales : \A a \in 1..(max_retries + 1) : env.replies[loc][a] = "429"

\* ------------------------------------------------------- pieces of main()
\* variant: an identifier that was not resolved is recorded as published
Unpublished_as_published == [published |-> TRUE, detected_at |-> 0]

\* lines 308 and 332: {"published": False, "detected_at": None}
Unpublished == [published |-> FALSE, detected_at |-> 0]
Published(now_iso) == [published |-> TRUE, detected_at |-> now_iso]

\* variant: only a cursor beyond the listing's length restarts
reset_cursor_beyond(cursor, L) == IF cursor > L THEN 0 ELSE cursor

\* line 315: a cursor at or beyond the listing's length restarts at 0
reset_cursor(cursor, L) == IF cursor >= L THEN 0 ELSE cursor

\* variant: identifiers that have a seen entry are selected again
new_ids_choices_seen_too(current_ids, seen_ids) ==
    LET base == CHOOSE q \in [1..Cardinality(current_ids) -> current_ids] :
                    SeqToSet(q) = current_ids
    IN  {PyHead(q, max_new) : q \in Perms(base)}

\* lines 320-321: the outcomes of list(set) + shuffle + [:max_new]
new_ids_choices(current_ids, seen_ids) ==
    LET S == current_ids \ seen_ids
        base == CHOOSE q \in [1..Cardinality(S) -> S] : SeqToSet(q) = S
    IN  {PyHead(q, max_new) : q \in Perms(base)}

\* variant: a published new arrival is queued as well
pending_after_new_always(pending, aid, ok) == Append(pending, aid)

\* lines 331-333 and 326-330: the pending list after a new arrival
pending_after_new(pending, aid, ok) ==
    IF ok THEN pending ELSE Append(pending, aid)

\* variant: a failed retry is not put back
remain_after_retry_drop(remain, aid, ok) == remain

\* lines 343-353: the remain list after one pending retry
remain_after_retry(remain, aid, ok) ==
    IF ok THEN remain ELSE Append(remain, aid)

\* variant: the identifiers that were not sampled are forgotten
pending_after_retry_sampled(rem, pend) == rem

\* line 354: the unsampled tail is put back behind the failed retries
pending_after_retry(rem, pend) == rem \o PyTail(pend, pending_retry)

\* variant: the batch stops at the end of the listing
rolling_batch_nowrap(ids, st, n) == PySlice(ids, st, st + n)

\* line 361
rolling_batch(ids, st, n) ==
    IF st + n <= Len(ids) THEN PySlice(ids, st, st + n)
    ELSE PyTail(ids, st) \o PyHead(ids, (st + n) % Len(ids))

\* variant: the rolling phase marks the identifier published as well
rolling_store_publish(st, aid, snap) ==
    [st EXCEPT !.seen = Put(st.seen, aid, Published(0)),
               !.snapshots = Put(st.snapshots, aid, snap)]

\* line 375: state["snapshots"][str(aid)] = snap
rolling_store(st, aid, snap) ==
    [st EXCEPT !.snapshots = Put(st.snapshots, aid, snap)]

\* variant: the modulo is forgotten
cursor_after_nomod(st, processed_, L) == st + processed_

\* line 376
cursor_after(st, processed_, L) == (st + processed_) % L

\* variant: this run's events are put behind the earlier ones
fold_events_append(events, old, cap) ==
    IF events # << >> THEN PyHead(old \o events, cap) ELSE old

\* lines 379-380: prepend this run's events, keep the first cap entries
fold_events(events, old, cap) ==
    IF events # << >> THEN PyHead(events \o old, cap) ELSE old

\* ------------------------------------------------- main.py and its helpers
\* safe_state.load_state's default
SafeDefaultState ==
    [cursor |-> 0, last_run |-> 0, recent_emitted |-> [new |-> << >>, updates |-> << >>]]

\* state.json of main.py: absent, unparseable, or holding a saved state
SafeNoFile == [exists |-> FALSE, complete |-> FALSE, content |-> SafeDefaultState]
SafeCorruptFile == [exists |-> TRUE, complete |-> FALSE, content |-> SafeDefaultState]

\* safe_state.load_state on a parseable or absent file
safe_load_state(file) == IF ~file.exists THEN SafeDefaultState ELSE file.content

\* safe_state.py line 10: json.load raises on a file that is not complete JSON
safe_load_state_raises(file) == file.exists /\ ~file.complete

\* safe_state.save_state at time now: last_run is stamped, the private temp
\* file is written and renamed over state.json
safe_save_state(st, now) ==
    [exists |-> TRUE, complete |-> TRUE, content |-> [st EXCEPT !.last_run = now]]

is_already_emitted(st, kind, appid) == appid \in SeqToSet(st.recent_emitted[kind])

\* del lst[:-RECENT_LIMIT] when the list is longer than RECENT_LIMIT
KeepLast(lst, k) == IF Len(lst) > k THEN SubSeq(lst, Len(lst) - k + 1, Len(lst)) ELSE lst

remember_emitted(st, kind, appid) ==
    [st EXCEPT !.recent_emitted[kind] = KeepLast(Append(@, appid), RECENT_LIMIT)]

\* the salts Python may give the str hashes of one process (PYTHONHASHSEED)
HashSeeds == {1, 2}

\* app_db.compute_langs_hash, hash(tuple(sorted(set(langs)))): one value per
\* set of languages within a process.  The hash of a tuple is built from
\* the hashes of its strings, which depend on the salt of the process that
\* computes them; the hash of the empty tuple is the same in every process.
compute_langs_hash(seed, langs) ==
    IF SeqToSet(langs) = {} THEN <<0, {}>> ELSE <<seed, SeqToSet(langs)>>

has_japanese(langs) == IF "japanese" \in SeqToSet(langs) THEN 1 ELSE 0

\* What fetch_app_info returns, as crawl_once reads it (lines 134-139):
\* published, langs, price and currency, with the defaults of an
\* unpublished identifier.
Infos ==
    { [published |-> FALSE, langs |-> << >>, price |-> 0, curr |-> "USD"],
      [published |-> TRUE, langs |-> <<"english">>, price |-> 100, curr |-> "JPY"],
      [published |-> TRUE, langs |-> <<"english", "japanese">>, price |-> 200, curr |-> "JPY"] }

\* app_db.get_app: << >> stands for None
get_app(db, appid) == IF appid \in DOMAIN db THEN <<db[appid]>> ELSE << >>

upsert_app(db, appid, langs_hash, has_ja, price_cents, currency) ==
    Put(db, appid, [langs_hash |-> langs_hash, has_ja |-> has_ja,
                    price_cents |-> price_cents, currency |-> currency])

\* crawl_once lines 145-154: the New event of a first sight
crawl_new(c, appid, info) ==
    IF info.published /\ get_app(c.db, appid) = << >>
          /\ ~is_already_emitted(c.st, "new", appid)
    THEN [c EXCEPT !.log.new = Append(@, appid),
                   !.st = remember_emitted(c.st, "new", appid)]
    ELSE c

\* crawl_once lines 157-168: Japanese was added
crawl_lang(c, appid, info) ==
    IF get_app(c.db, appid) # << >>
          /\ get_app(c.db, appid)[1].has_ja = 0 /\ has_japanese(info.langs) = 1
          /\ ~is_already_emitted(c.st, "updates", appid)
    THEN [c EXCEPT !.log.updates = Append(@, <<appid, "lang_added_ja">>),
                   !.st = remember_emitted(c.st, "updates", appid)]
    ELSE c

\* crawl_once lines 169-180: the price or the currency changed
crawl_price(c, appid, info) ==
    IF get_app(c.db, appid) # << >>
          /\ (get_app(c.db, appid)[1].price_cents # info.price
                \/ get_app(c.db, appid)[1].currency # info.curr)
    THEN [c EXCEPT !.log.updates = Append(@, <<appid, "price_change">>)]
    ELSE c

\* crawl_once lines 131-186: one iteration of the while loop
crawl_iteration(c, info) ==
    LET appid == c.cursor
        c1 == crawl_new(c, appid, info)
        c2 == crawl_lang(c1, appid, info)
        c3 == crawl_price(c2, appid, info)
    IN  [c3 EXCEPT !.db = upsert_app(c.db, appid, compute_langs_hash(c.seed, info.langs),
                                      has_japanese(info.langs), info.price, info.curr),
                   !.cursor = c.cursor + 1,
                   !.processed = c.processed + 1]

\* crawl_once lines 131-183: what an iteration has done when an exception
\* leaves it: nothing (lines 133-148), the New entry (lines 161-183), the
\* language entry as well (lines 171-183), or all three entries (line 183);
\* the database row, the cursor and the counter are not yet written
crawl_interrupted(c, info) ==
    LET appid == c.cursor
        c1 == crawl_new(c, appid, info)
        c2 == crawl_lang(c1, appid, info)
        c3 == crawl_price(c2, appid, info)
    IN  {c, c1, c2, c3}

\* snaplite.prune: the snapshot files dated more than MAX_KEEP_DAYS ago are
\* removed (lines 35-43), then files in the order of their modification
\* times while the total exceeds MAX_TOTAL_MB (lines 45-50), the file of the
\* current day included.  The modification times need not follow the dates
\* of the names and any entry may be alone in its file, so the log keeps
\* any of its entries, in their order.
RECURSIVE pruned(_)
pruned(lst) ==
    IF lst = << >> THEN {<< >>}
    ELSE LET rest == pruned(Tail(lst))
         IN  rest \cup {<<Head(lst)>> \o r : r \in rest}

\* no evaluation of the diff engine is followed
DfOff == [pc |-> "off"]

\* no call of fetch_appdetails is followed
FtOff == [pc |-> "off"]

\* no sequence of rolling phases is followed
CvOff == [pc |-> "off"]

\* ------------------------------------------------ the request layer in time
\* Times are in units of 0.05 s.
RATE_MIN_SEC == 6           \* 0.30 s
RATE_SLOW_SEC == 16         \* 0.80 s
SLOW_MODE_SECONDS == 3600   \* 180 s
base_sleep == 30            \* 1.5 s

Min(a, b) == IF a < b THEN a ELSE b
Max(a, b) == IF a > b THEN a ELSE b

RECURSIVE Pow2(_)
Pow2(k) == IF k = 0 THEN 1 ELSE 2 * Pow2(k - 1)

\* random.uniform(0.8, 1.3): its two ends, in tenths
Jitters == {8, 13}

\* lines 54 and 60: min(base_sleep * 2**attempt * jitter, cap); the cap is
\* 60 s after an HTTPError and 30 s after a URLError
sleep_sec(attempt, jitter, r) ==
    Min((base_sleep * Pow2(attempt) * jitter) \div 10,
        IF r = "urlerr" THEN 600 ELSE 1200)

\* the time from a request's departure to its answer or error
Latencies == {1, 4}

\* The globals are kept relative to the clock:
\*   since_last  = now - _last_request_ts   (capped at RATE_SLOW_SEC)
\*   slow_left   = _slow_mode_until - now   (0 when that time has passed)
\* and two observations the program does not read:
\*   since_sent  = now - departure of the latest request (same cap)
\*   since_429   = now - arrival of the latest 429 (capped at SLOW_MODE_SECONDS)
Elapse(nt, t) ==
    [nt EXCEPT !.since_last = Min(RATE_SLOW_SEC, @ + t),
               !.slow_left = Max(0, @ - t),
               !.since_sent = Min(RATE_SLOW_SEC, @ + t),
               !.since_429 = Min(SLOW_MODE_SECONDS, @ + t)]

\* _polite_sleep, lines 33-36: the gap chosen and the time slept
min_gap(nt) == IF nt.slow_left > 0 THEN RATE_SLOW_SEC ELSE RATE_MIN_SEC
polite_wait(nt) == Max(0, min_gap(nt) - nt.since_last)

\* main.py line 14: _http_get_json(url, retries=3, backoff=1.0)
retries == 3
backoff_sleep(i) == 20 * Pow2(i)

\* the request layer while no request is followed
NetOff == [pc |-> "off"]

\* A process that has made no request yet: _last_request_ts = 0.0 and
\* _slow_mode_until = 0.0 lie far behind the clock.  kind tells which
\* function makes the requests: http_get_raw or main.py's _http_get_json.
NetInit(kind) ==
    [pc |-> "idle", kind |-> kind, calls |-> 0, attempt |-> 0,
     since_last |-> RATE_SLOW_SEC, slow_left |-> 0,
     since_sent |-> RATE_SLOW_SEC, since_429 |-> SLOW_MODE_SECONDS,
     have_prev |-> FALSE, sent_any |-> FALSE, sent_gap |-> 0, sent_min |-> 0,
     last_reply |-> "none", result |-> "none"]

\* the crawler before its first run: no state.json, empty database and logs
\* seed is the hash salt of the running process.
MpInit(file, pc0) ==
    [pc |-> pc0, runs |-> 0, file |-> file, st |-> SafeDefaultState,
     db |-> EmptyMap, log |-> [new |-> << >>, updates |-> << >>],
     cursor |-> 0, processed |-> 0, seed |-> 0]

\* ------------------------------------------------------------------ state
VARIABLES
    fs,                 \* the state file and its temp file
    rss_out,            \* the New feed file: the items it was rendered from
    pc,                 \* position of the process in main()
    run,                \* number of the current run; also its now_iso
    state,              \* main's in-memory state dict
    appids,             \* the listing of this run
    new_ids,            \* the new arrivals selected for this run
    to_check,           \* the pending identifiers retried in this run
    remain,             \* the pending identifiers whose retry failed
    batch,              \* the rolling batch
    idx,                \* position in the loop being executed (1-based)
    start,              \* main's start (rolling phase)
    processed,          \* main's processed counter
    n,                  \* args.crawl_batch
    published_events,
    update_events,
    \* observations of the run, not read by the program
    c0,                 \* cursor in effect after line 315
    attempted,          \* identifiers fetched by the rolling phase, in order
    truncated,          \* the deadline break of line 365 was taken
    listing_failed,     \* fetch_app_list raised
    item_error,         \* an exception escaped the processing of one identifier
    limited,            \* new arrivals of this run all of whose fetches got 429 only
    items_before,       \* state["items"] / state["updates"] as loaded
    served,             \* the record the store serves during this run
    committed,          \* the state file as of the last completed os.replace
    new_snap,           \* <<[aid, snap]>>: the snapshot extracted by the loop
                        \* iteration just executed (lines 330, 347, 371), or << >>
    mp,                 \* the crawler of main.py: its process and its files
    net,                \* the request layer: clock, globals and request in flight
    df,                 \* one evaluation of extract_snapshot and diff_snap
    ft,                 \* one call of fetch_appdetails, query by query
    cv                  \* the rolling phases of successive runs over one listing

locals == <<state, appids, new_ids, to_check, remain, batch, idx, start,
            processed, n, published_events, update_events>>
observed == <<c0, attempted, truncated, listing_failed, item_error, limited,
              items_before>>
mainvars == <<fs, rss_out, pc, run, locals, observed, served, committed, new_snap>>
vars == <<mainvars, mp, net, df, ft, cv>>

Running == {"list", "new", "retry", "rolling_init", "rolling", "commit",
            "rss", "rss_write", "updates_rss", "save_open", "save_dump",
            "save_replace"}
Ended == {"done", "exit1", "crashed", "killed"}

LocalsInit ==
    /\ state = DefaultState
    /\ appids = << >>
    /\ new_ids = << >>
    /\ to_check = << >>
    /\ remain = << >>
    /\ batch = << >>
    /\ idx = 1
    /\ start = 0
    /\ processed = 0
    /\ n = 0
    /\ published_events = << >>
    /\ update_events = << >>

ObservedInit ==
    /\ c0 = 0
    /\ attempted = << >>
    /\ truncated = FALSE
    /\ listing_failed = FALSE
    /\ item_error = FALSE
    /\ limited = {}
    /\ items_before = [items |-> << >>, updates |-> << >>]

Init ==
    /\ fs = [canon |-> NoFile, tmp |-> NoFile]
    /\ rss_out = << >>
    /\ pc = "idle"
    /\ run = 0
    /\ LocalsInit
    /\ ObservedInit
    /\ served = Rec1
    /\ committed = NoFile
    /\ new_snap = << >>
    /\ mp = MpInit(SafeNoFile, "off")
    /\ net = NetOff
    /\ df = DfOff
    /\ ft = FtOff
    /\ cv = CvOff

\* ---------------------------------------------------------------- actions
files == <<fs, rss_out, committed>>
loopvars == <<to_check, remain, batch, start, processed, n>>

Fetched(r) == ~r.raised /\ r.ok

\* line 294: load_state; json.load raises on a file that is not complete JSON
StartRun ==
    /\ pc = "idle"
    /\ run < MaxRuns
    /\ run' = run + 1
    /\ served' \in Records
    /\ IF load_state_raises(fs)
       THEN /\ pc' = "crashed"
            /\ UNCHANGED <<state, items_before>>
       ELSE /\ pc' = "list"
            /\ state' = load_state(fs)
            /\ items_before' = [items |-> load_state(fs).items,
                                updates |-> load_state(fs).updates]
    /\ UNCHANGED <<files, appids, new_ids, loopvars, idx,
                   published_events, update_events, c0, attempted, truncated,
                   listing_failed, item_error, limited>>
    /\ UNCHANGED new_snap
    /\ UNCHANGED <<mp, net, df, ft, cv>>

\* lines 298-300: fetch_app_list raised; sys.exit(1)
FetchListFail ==
    /\ pc = "list"
    /\ pc' = "exit1"
    /\ listing_failed' = TRUE
    /\ UNCHANGED <<files, served, run, locals, c0, attempted, truncated,
                   item_error, limited, items_before>>
    /\ UNCHANGED new_snap
    /\ UNCHANGED <<mp, net, df, ft, cv>>

Listing(k) == [i \in 1..k |-> i]

\* lines 302-312: first run with --baseline-if-empty
Baseline ==
    /\ pc = "list"
    /\ DOMAIN state.seen = {}
    /\ \E k \in 0..MaxId :
        /\ appids' = Listing(k)
        /\ state' = [state EXCEPT
                        !.seen = [a \in SeqToSet(Listing(k)) |-> Unpublished],
                        !.applist = Listing(k),
                        !.crawl_cursor = 0]
    /\ rss_out' = << >>
    /\ c0' = 0
    /\ pc' = "save_open"
    /\ UNCHANGED <<fs, committed, served, run, new_ids, loopvars, idx,
                   published_events, update_events, attempted, truncated,
                   listing_failed, item_error, limited, items_before>>
    /\ UNCHANGED new_snap
    /\ UNCHANGED <<mp, net, df, ft, cv>>

\* lines 302-303, 314-321: listing fetched, cursor normalised, new arrivals chosen
FetchListOk ==
    /\ pc = "list"
    /\ \E k \in 0..MaxId :
        /\ appids' = Listing(k)
        /\ state' = [state EXCEPT
                        !.applist = Listing(k),
                        !.crawl_cursor = reset_cursor(state.crawl_cursor, k)]
        /\ c0' = reset_cursor(state.crawl_cursor, k)
        /\ new_ids' \in new_ids_choices(SeqToSet(Listing(k)), DOMAIN state.seen)
    /\ idx' = 1
    /\ pc' = "new"
    /\ UNCHANGED <<files, served, run, loopvars, published_events,
                   update_events, attempted, truncated, listing_failed,
                   item_error, limited, items_before>>
    /\ UNCHANGED new_snap
    /\ UNCHANGED <<mp, net, df, ft, cv>>

\* lines 322-333: one iteration of the new-arrival loop
NewArrival ==
    /\ pc = "new"
    /\ idx <= Len(new_ids)
    /\ \E env \in Envs(served) :
        LET aid == new_ids[idx]
            r == fetch_appdetails(env, cc_primary, lang_primary)
        IN  /\ limited' = IF AllRateLimited(env) THEN limited \cup {aid}
                          ELSE limited \ {aid}
            /\ IF Fetched(r) /\ build_new_item_raises(env, r)
               THEN /\ pc' = "crashed"
                    /\ item_error' = TRUE
                    /\ new_snap' = << >>
                    /\ UNCHANGED <<state, published_events, idx>>
               ELSE /\ pc' = "new"
                    /\ idx' = idx + 1
                    /\ item_error' = item_error
                    /\ IF Fetched(r)
                       THEN /\ published_events' =
                                  IF ~link_in_items(aid, state.items)
                                  THEN Append(published_events, build_new_item(aid, run))
                                  ELSE published_events
                            /\ state' = [state EXCEPT
                                  !.seen = Put(state.seen, aid, Published(run)),
                                  !.snapshots = Put(state.snapshots, aid, extract_snapshot(r)),
                                  !.pending = pending_after_new(state.pending, aid, TRUE)]
                            /\ new_snap' = <<[aid |-> aid, snap |-> extract_snapshot(r)]>>
                       ELSE /\ published_events' = published_events
                            /\ new_snap' = << >>
                            /\ state' = [state EXCEPT
                                  !.seen = Put(state.seen, aid, Unpublished),
                                  !.pending = pending_after_new(state.pending, aid, FALSE)]
    /\ UNCHANGED <<files, served, run, appids, new_ids, loopvars,
                   update_events, c0, attempted, truncated, listing_failed,
                   items_before>>
    /\ UNCHANGED <<mp, net, df, ft, cv>>

\* lines 336-338: the new-arrival loop is over; shuffle and sample pending
NewDone ==
    /\ pc = "new"
    /\ idx > Len(new_ids)
    /\ IF state.pending # << >>
       THEN /\ \E q \in Perms(state.pending) :
                 /\ state' = [state EXCEPT !.pending = q]
                 /\ to_check' = PyHead(q, pending_retry)
            /\ remain' = << >>
            /\ idx' = 1
            /\ pc' = "retry"
       ELSE /\ pc' = "rolling_init"
            /\ UNCHANGED <<state, to_check, remain, idx>>
    /\ UNCHANGED <<files, served, run, appids, new_ids, batch, start,
                   processed, n, published_events, update_events, observed>>
    /\ new_snap' = << >>
    /\ UNCHANGED <<mp, net, df, ft, cv>>

\* variant: the diff is not tested for emptiness
changed_events_anydiff(events, snapshots, aid, snap, now_iso) ==
    IF aid \in DOMAIN snapshots
    THEN Append(events, build_update_item(aid, diff_snap(snapshots[aid], snap), now_iso))
    ELSE events

\* lines 347-350 and 371-374: a Changed event when a prior snapshot exists
\* and differs from the new one
changed_events(events, snapshots, aid, snap, now_iso) ==
    IF aid \in DOMAIN snapshots /\ diff_snap(snapshots[aid], snap) # << >>
    THEN Append(events, build_update_item(aid, diff_snap(snapshots[aid], snap), now_iso))
    ELSE events

\* lines 339-353: one iteration of the pending-retry loop
PendingRetry ==
    /\ pc = "retry"
    /\ idx <= Len(to_check)
    /\ \E env \in Envs(served) :
        LET aid == to_check[idx]
            r == fetch_appdetails(env, cc_primary, lang_primary)
        IN  /\ limited' = IF AllRateLimited(env) THEN limited
                          ELSE limited \ {aid}
            /\ IF Fetched(r) /\ build_new_item_raises(env, r)
               THEN /\ pc' = "crashed"
                    /\ item_error' = TRUE
                    /\ new_snap' = << >>
                    /\ UNCHANGED <<state, published_events, update_events, remain, idx>>
               ELSE /\ pc' = "retry"
                    /\ idx' = idx + 1
                    /\ item_error' = item_error
                    /\ remain' = remain_after_retry(remain, aid, Fetched(r))
                    /\ IF Fetched(r)
                       THEN /\ published_events' =
                                  IF ~link_in_items(aid, state.items)
                                  THEN Append(published_events, build_new_item(aid, run))
                                  ELSE published_events
                            /\ update_events' = changed_events(update_events,
                                  state.snapshots, aid, extract_snapshot(r), run)
                            /\ state' = [state EXCEPT
                                  !.seen = Put(state.seen, aid, Published(run)),
                                  !.snapshots = Put(state.snapshots, aid, extract_snapshot(r))]
                            /\ new_snap' = <<[aid |-> aid, snap |-> extract_snapshot(r)]>>
                       ELSE /\ new_snap' = << >>
                            /\ UNCHANGED <<state, published_events, update_events>>
    /\ UNCHANGED <<files, served, run, appids, new_ids, to_check, batch,
                   start, processed, n, c0, attempted, truncated,
                   listing_failed, items_before>>
    /\ UNCHANGED <<mp, net, df, ft, cv>>

\* line 354: remain is extended in place by the unsampled tail and becomes
\* state["pending"]
RetryDone ==
    /\ pc = "retry"
    /\ idx > Len(to_check)
    /\ remain' = pending_after_retry(remain, state.pending)
    /\ state' = [state EXCEPT
                    !.pending = pending_after_retry(remain, state.pending)]
    /\ pc' = "rolling_init"
    /\ UNCHANGED <<files, served, run, appids, new_ids, to_check, batch, start,
                   processed, n, idx, published_events, update_events, observed>>
    /\ new_snap' = << >>
    /\ UNCHANGED <<mp, net, df, ft, cv>>

\* lines 357-362: args.crawl_batch is read and the batch is cut; the lists
\* of the two earlier loops are not read again and are dropped here
RollingInit ==
    /\ pc = "rolling_init"
    /\ \E nn \in 0..MaxBatch :
        /\ n' = nn
        /\ IF Len(appids) > 0 /\ nn > 0
           THEN /\ start' = state.crawl_cursor % Len(appids)
                /\ batch' = rolling_batch(appids, state.crawl_cursor % Len(appids), nn)
                /\ pc' = "rolling"
           ELSE /\ pc' = "commit"
                /\ UNCHANGED <<start, batch>>
    /\ processed' = 0
    /\ idx' = 1
    /\ new_ids' = << >>
    /\ to_check' = << >>
    /\ remain' = << >>
    /\ UNCHANGED <<files, served, run, state, appids, published_events,
                   update_events, observed>>
    /\ UNCHANGED new_snap
    /\ UNCHANGED <<mp, net, df, ft, cv>>

\* lines 363-375: one iteration of the rolling loop before the deadline
RollingFetch ==
    /\ pc = "rolling"
    /\ idx <= Len(batch)
    /\ processed' = processed + 1
    /\ attempted' = Append(attempted, batch[idx])
    /\ idx' = idx + 1
    /\ \E env \in Envs(served) :
        LET aid == batch[idx]
            r == fetch_appdetails(env, cc_primary, lang_primary)
        IN  /\ limited' = IF AllRateLimited(env) THEN limited
                          ELSE limited \ {aid}
            /\ IF Fetched(r)
               THEN /\ update_events' = changed_events(update_events,
                          state.snapshots, aid, extract_snapshot(r), run)
                    /\ state' = rolling_store(state, aid, extract_snapshot(r))
                    /\ new_snap' = <<[aid |-> aid, snap |-> extract_snapshot(r)]>>
               ELSE /\ new_snap' = << >>
                    /\ UNCHANGED <<state, update_events>>
    /\ UNCHANGED <<files, served, run, pc, appids, new_ids, to_check, remain,
                   batch, start, n, published_events, c0, truncated,
                   listing_failed, item_error, items_before>>
    /\ UNCHANGED <<mp, net, df, ft, cv>>

\* lines 364-365 and 376: the deadline has passed; break and store the cursor
RollingDeadline ==
    /\ pc = "rolling"
    /\ idx <= Len(batch)
    /\ truncated' = TRUE
    /\ state' = [state EXCEPT
                    !.crawl_cursor = cursor_after(start, processed, Len(appids))]
    /\ pc' = "commit"
    /\ UNCHANGED <<files, served, run, appids, new_ids, loopvars, idx,
                   published_events, update_events, c0, attempted,
                   listing_failed, item_error, limited, items_before>>
    /\ new_snap' = << >>
    /\ UNCHANGED <<mp, net, df, ft, cv>>

\* line 376 after the loop ran to the end of the batch
RollingDone ==
    /\ pc = "rolling"
    /\ idx > Len(batch)
    /\ state' = [state EXCEPT
                    !.crawl_cursor = cursor_after(start, processed, Len(appids))]
    /\ pc' = "commit"
    /\ UNCHANGED <<files, served, run, appids, new_ids, loopvars, idx,
                   published_events, update_events, observed>>
    /\ new_snap' = << >>
    /\ UNCHANGED <<mp, net, df, ft, cv>>

\* lines 379-380; the loop variables and the two event lists are not read
\* again by anything that changes state, and are dropped here
Commit ==
    /\ pc = "commit"
    /\ state' = [state EXCEPT
                    !.items = fold_events(published_events, state.items, max_items),
                    !.updates = fold_events(update_events, state.updates, max_updates)]
    /\ pc' = "rss"
    /\ new_ids' = << >>
    /\ to_check' = << >>
    /\ remain' = << >>
    /\ batch' = << >>
    /\ idx' = 1
    /\ start' = 0
    /\ processed' = 0
    /\ n' = 0
    /\ published_events' = << >>
    /\ update_events' = << >>
    /\ UNCHANGED <<files, served, run, appids, observed>>
    /\ UNCHANGED new_snap
    /\ UNCHANGED <<mp, net, df, ft, cv>>

\* line 381, open(args.rss_out, "w"): the feed file is truncated
OpenRss ==
    /\ pc = "rss"
    /\ rss_out' = << >>
    /\ pc' = "rss_write"
    /\ UNCHANGED <<fs, committed, served, run, locals, observed>>
    /\ UNCHANGED new_snap
    /\ UNCHANGED <<mp, net, df, ft, cv>>

\* line 381, .write(build_rss(...)): the feed of state["items"] is written
WriteRss ==
    /\ pc = "rss_write"
    /\ rss_out' = state.items
    /\ pc' = "updates_rss"
    /\ UNCHANGED <<fs, committed, served, run, locals, observed>>
    /\ UNCHANGED new_snap
    /\ UNCHANGED <<mp, net, df, ft, cv>>

\* line 382
WriteUpdates ==
    /\ pc = "updates_rss"
    /\ pc' = "save_open"
    /\ UNCHANGED <<fs, rss_out, committed, served, run, locals, observed>>
    /\ UNCHANGED new_snap
    /\ UNCHANGED <<mp, net, df, ft, cv>>

\* save_state, line 270: the temp file is opened for writing
SaveOpen ==
    /\ pc = "save_open"
    /\ fs' = save_state_open(fs, state)
    /\ pc' = "save_dump"
    /\ UNCHANGED <<rss_out, committed, served, run, locals, observed>>
    /\ UNCHANGED new_snap
    /\ UNCHANGED <<mp, net, df, ft, cv>>

\* save_state, line 270: the dump is complete
SaveDump ==
    /\ pc = "save_dump"
    /\ fs' = save_state_dump(fs)
    /\ pc' = "save_replace"
    /\ UNCHANGED <<rss_out, committed, served, run, locals, observed>>
    /\ UNCHANGED new_snap
    /\ UNCHANGED <<mp, net, df, ft, cv>>

\* save_state, line 271: the rename commits the new state
SaveReplace ==
    /\ pc = "save_replace"
    /\ fs' = save_state_replace(fs)
    /\ committed' = [exists |-> TRUE, complete |-> TRUE, content |-> state]
    /\ pc' = "done"
    /\ UNCHANGED <<rss_out, served, run, locals, observed>>
    /\ UNCHANGED new_snap
    /\ UNCHANGED <<mp, net, df, ft, cv>>

\* the in-memory values of a process that no longer exists
ResetLocals ==
    /\ state' = DefaultState
    /\ appids' = << >>
    /\ new_ids' = << >>
    /\ to_check' = << >>
    /\ remain' = << >>
    /\ batch' = << >>
    /\ idx' = 1
    /\ start' = 0
    /\ processed' = 0
    /\ n' = 0
    /\ published_events' = << >>
    /\ update_events' = << >>
    /\ c0' = 0
    /\ attempted' = << >>
    /\ truncated' = FALSE
    /\ listing_failed' = FALSE
    /\ item_error' = FALSE
    /\ limited' = {}
    /\ items_before' = [items |-> << >>, updates |-> << >>]
    /\ served' = Rec1
    /\ new_snap' = << >>

\* the process is killed (machine crash, job cancelled) at any point of a run
Kill ==
    /\ pc \in Running
    /\ pc' = "killed"
    /\ ResetLocals
    /\ UNCHANGED <<files, run>>
    /\ UNCHANGED <<mp, net, df, ft, cv>>

\* the process is gone.  A temp file it left behind stays, but its content
\* is never read again (line 270 reopens it with "w"), so it is not kept.
Exit ==
    /\ pc \in Ended
    /\ pc' = "idle"
    /\ ResetLocals
    /\ fs' = [fs EXCEPT !.tmp.content = DefaultState]
    /\ UNCHANGED <<rss_out, committed, run>>
    /\ UNCHANGED <<mp, net, df, ft, cv>>

Next ==
    \/ StartRun
    \/ FetchListFail
    \/ Baseline
    \/ FetchListOk
    \/ NewArrival
    \/ NewDone
    \/ PendingRetry
    \/ RetryDone
    \/ RollingInit
    \/ RollingFetch
    \/ RollingDeadline
    \/ RollingDone
    \/ Commit
    \/ OpenRss
    \/ WriteRss
    \/ WriteUpdates
    \/ SaveOpen
    \/ SaveDump
    \/ SaveReplace
    \/ Kill
    \/ Exit

Spec == Init /\ [][Next]_vars

\* ------------------------------------------------------ main.py's process
MpEnded == {"done", "failed", "killed"}

\* main.py lines 123-128: the process starts, crawl_once loads the state;
\* load_state may raise
MpStart ==
    /\ mp.pc = "idle"
    /\ mp.runs < MaxRuns
    /\ \E seed \in HashSeeds :
        IF safe_load_state_raises(mp.file)
        THEN mp' = [mp EXCEPT !.pc = "handler", !.runs = @ + 1, !.seed = seed]
        ELSE mp' = [mp EXCEPT !.pc = "loop", !.runs = @ + 1, !.seed = seed,
                              !.st = safe_load_state(mp.file),
                              !.cursor = safe_load_state(mp.file).cursor,
                              !.processed = 0]
    /\ UNCHANGED <<mainvars, net, df, ft, cv>>

\* main.py lines 130-186: one iteration of the while loop
MpIter ==
    /\ mp.pc = "loop"
    /\ mp.processed < HARD_LIMIT
    /\ \E info \in Infos : mp' = crawl_iteration(mp, info)
    /\ UNCHANGED <<mainvars, net, df, ft, cv>>

\* an exception out of the loop body (line 133 and the calls after it, up
\* to upsert_app at line 183) reaches the handler of line 199 with the log
\* entries the iteration has already appended
MpRaise ==
    /\ mp.pc = "loop"
    /\ mp.processed < HARD_LIMIT
    /\ \E info \in Infos : \E c \in crawl_interrupted(mp, info) :
          mp' = [c EXCEPT !.pc = "handler"]
    /\ UNCHANGED <<mainvars, net, df, ft, cv>>

\* main.py lines 130 and 189-190: the loop ends at HARD_LIMIT or at
\* WALL_SECS; the cursor is stored and the state saved
MpFinish ==
    /\ mp.pc = "loop"
    /\ mp' = [mp EXCEPT !.pc = "feeds",
                        !.st = [mp.st EXCEPT !.cursor = mp.cursor, !.last_run = mp.runs],
                        !.file = safe_save_state([mp.st EXCEPT !.cursor = mp.cursor], mp.runs)]
    /\ UNCHANGED <<mainvars, net, df, ft, cv>>

\* main.py lines 189-190 when save_state raises (safe_state.py lines 15-23:
\* the temp file cannot be created, written or renamed): the cursor and
\* last_run are set in memory, state.json is as it was, and the exception
\* reaches the handler of line 199
MpSaveRaise ==
    /\ mp.pc = "loop"
    /\ mp' = [mp EXCEPT !.pc = "handler",
                        !.st = [mp.st EXCEPT !.cursor = mp.cursor, !.last_run = mp.runs]]
    /\ UNCHANGED <<mainvars, net, df, ft, cv>>

\* main.py lines 191-194: the feeds are written from the log and the two
\* logs are pruned
MpFeeds ==
    /\ mp.pc = "feeds"
    /\ \E ln \in pruned(mp.log.new), lu \in pruned(mp.log.updates) :
          mp' = [mp EXCEPT !.pc = "done", !.log = [new |-> ln, updates |-> lu]]
    /\ UNCHANGED <<mainvars, net, df, ft, cv>>

\* an exception out of write_feed or prune (lines 191-194) reaches the
\* handler after the state was saved.  What was removed before it stays
\* removed: nothing (lines 191-192), files of the New log (line 193), files
\* of both logs (line 194, when the exception follows the removals of
\* snaplite lines 35-43 or some of those of line 50)
MpFeedsRaise ==
    /\ mp.pc = "feeds"
    /\ \E ln \in pruned(mp.log.new), lu \in pruned(mp.log.updates) :
          mp' = [mp EXCEPT !.pc = "handler", !.log = [new |-> ln, updates |-> lu]]
    /\ UNCHANGED <<mainvars, net, df, ft, cv>>

\* main.py lines 199-203: the handler loads the state file again, saves
\* what it loaded and re-raises; load_state raising again ends it there,
\* and so does save_state raising, with state.json as it was
MpHandler ==
    /\ mp.pc = "handler"
    /\ IF safe_load_state_raises(mp.file)
       THEN mp' = [mp EXCEPT !.pc = "failed"]
       ELSE \/ mp' = [mp EXCEPT !.pc = "failed",
                                !.st = [safe_load_state(mp.file) EXCEPT !.last_run = mp.runs],
                                !.file = safe_save_state(safe_load_state(mp.file), mp.runs)]
            \/ mp' = [mp EXCEPT !.pc = "failed",
                                !.st = [safe_load_state(mp.file) EXCEPT !.last_run = mp.runs]]
    /\ UNCHANGED <<mainvars, net, df, ft, cv>>

\* the process is killed (machine crash, job cancelled) at any point of a
\* run: no handler runs.  What the run has appended to or removed from the
\* logs stays; state.json is the one last renamed into place.
MpKill ==
    /\ mp.pc \in {"loop", "feeds", "handler"}
    /\ \E c \in (IF mp.pc = "loop" /\ mp.processed < HARD_LIMIT
                  THEN UNION {crawl_interrupted(mp, info) : info \in Infos}
                  ELSE IF mp.pc = "feeds"
                  THEN {[mp EXCEPT !.log = [new |-> ln, updates |-> lu]] :
                            ln \in pruned(mp.log.new), lu \in pruned(mp.log.updates)}
                  ELSE {mp}) :
          mp' = [c EXCEPT !.pc = "killed"]
    /\ UNCHANGED <<mainvars, net, df, ft, cv>>

\* the process is gone
MpExit ==
    /\ mp.pc \in MpEnded
    /\ mp' = [mp EXCEPT !.pc = "idle", !.st = SafeDefaultState,
                        !.cursor = 0, !.processed = 0, !.seed = 0]
    /\ UNCHANGED <<mainvars, net, df, ft, cv>>

MpNext ==
    MpStart \/ MpIter \/ MpRaise \/ MpFinish \/ MpSaveRaise \/ MpFeeds
        \/ MpFeedsRaise \/ MpHandler \/ MpKill \/ MpExit

\* The state file found by a run is absent, unparseable or written by an
\* earlier version, and the program that runs is steam_new_store_rss.py (one
\* run) or main.py.
InitStateFile ==
    /\ rss_out = << >>
    /\ run = MaxRuns - 1
    /\ LocalsInit
    /\ ObservedInit
    /\ served = Rec1
    /\ new_snap = << >>
    /\ net = NetOff
    /\ df = DfOff
    /\ ft = FtOff
    /\ cv = CvOff
    /\ \/ /\ pc = "idle"
          /\ fs \in {[canon |-> NoFile, tmp |-> NoFile],
                     [canon |-> CorruptFile, tmp |-> NoFile],
                     [canon |-> LegacyFile, tmp |-> NoFile]}
          /\ committed = fs.canon
          /\ mp = MpInit(SafeNoFile, "off")
       \/ /\ pc = "off"
          /\ fs = [canon |-> NoFile, tmp |-> NoFile]
          /\ committed = NoFile
          /\ mp \in {MpInit(SafeNoFile, "idle"), MpInit(SafeCorruptFile, "idle")}

NextStateFile == Next \/ MpNext

StateFileSpec == InitStateFile /\ [][NextStateFile]_vars

\* ------------------------------------------------- the diff engine alone
\* The language lists a store record may carry: any order, repeats allowed.
MaxLangs == 2
LangLists == UNION {[1..k -> {"english", "japanese"}] : k \in 0..MaxLangs}

\* The results of a successful fetch that extract_snapshot is applied to
FetchedRecords ==
    [raised : {FALSE}, ok : {TRUE}, desc : BOOLEAN,
     data : [price : {"1000", "2000"}, langs : LangLists]]

InitDiff ==
    /\ fs = [canon |-> NoFile, tmp |-> NoFile]
    /\ rss_out = << >>
    /\ pc = "off"
    /\ run = 0
    /\ LocalsInit
    /\ ObservedInit
    /\ served = Rec1
    /\ committed = NoFile
    /\ new_snap = << >>
    /\ mp = MpInit(SafeNoFile, "off")
    /\ net = NetOff
    /\ ft = FtOff
    /\ cv = CvOff
    /\ \E r1, r2 \in FetchedRecords : df = [pc |-> "fetched", prev_data |-> r1, data |-> r2]

\* lines 347 and 371: snap = extract_snapshot(data); prev is the snapshot
\* extract_snapshot gave for the earlier record (stored by line 330, 351 or
\* 375).  The two records stay on view; the program still holds data only.
DiffExtract ==
    /\ df.pc = "fetched"
    /\ df' = [pc |-> "extracted", prev_data |-> df.prev_data, data |-> df.data,
              prev |-> extract_snapshot(df.prev_data),
              snap |-> extract_snapshot(df.data)]
    /\ UNCHANGED <<mainvars, mp, net, ft, cv>>

\* lines 349 and 373: ch = diff_snap(prev, snap)
DiffCall ==
    /\ df.pc = "extracted"
    /\ df' = [pc |-> "diffed", prev_data |-> df.prev_data, data |-> df.data,
              prev |-> df.prev, snap |-> df.snap,
              ch |-> diff_snap(df.prev, df.snap)]
    /\ UNCHANGED <<mainvars, mp, net, ft, cv>>

NextDiff == DiffExtract \/ DiffCall

DiffSpec == InitDiff /\ [][NextDiff]_vars

\* ----------------------------------------------- the request layer's steps
OkReplies == {"ok", "nodesc", "nodata"}

\* a caller asks for one URL: http_get_raw (line 38) or _http_get_json
\* (main.py line 14) starts with its first attempt
NetCall ==
    /\ net.pc = "idle"
    /\ net.calls < MaxRequests
    /\ net' = [net EXCEPT !.pc = "send", !.calls = @ + 1, !.attempt = 0,
                          !.last_reply = "none", !.result = "none"]
    /\ UNCHANGED <<mainvars, mp, df, ft, cv>>

\* lines 44-46: _polite_sleep, then urlopen sends the request
RawSend ==
    /\ net.pc = "send"
    /\ net.kind = "raw"
    /\ LET slept == Elapse(net, polite_wait(net))
       IN  net' = [slept EXCEPT !.pc = "wait",
                                !.have_prev = net.sent_any,
                                !.sent_any = TRUE,
                                !.sent_gap = slept.since_sent,
                                !.sent_min = min_gap(net),
                                !.since_sent = 0]
    /\ UNCHANGED <<mainvars, mp, df, ft, cv>>

\* lines 46-63: the answer or the error arrives.  A body, JSON or not, is
\* returned, or the error is retried (lines 52-56, 59-62), or it leaves
\* http_get_raw (lines 57, 63; at once when no except clause catches it).
RawReply ==
    /\ net.pc = "wait"
    /\ net.kind = "raw"
    /\ \E r \in Replies, d \in Latencies, j \in Jitters :
        LET arrived == [Elapse(net, d) EXCEPT
                            !.last_reply = r,
                            !.since_429 = IF r = "429" THEN 0 ELSE @]
            raise == [arrived EXCEPT !.pc = "idle", !.result = "raised"]
        IN  IF r \in OkReplies \cup {"badjson"}
            THEN net' = [arrived EXCEPT !.since_last = 0, !.pc = "idle",
                                        !.result = "returned"]
            ELSE IF r = "urlerr"
            THEN IF net.attempt < max_retries
                 THEN net' = [Elapse(arrived, sleep_sec(net.attempt, j, r)) EXCEPT
                                  !.pc = "send", !.attempt = @ + 1]
                 ELSE net' = raise
            ELSE IF RetryableCode(r) /\ net.attempt < max_retries
                 THEN net' = [Elapse([arrived EXCEPT !.slow_left =
                                          IF r = "429" THEN SLOW_MODE_SECONDS ELSE @],
                                     sleep_sec(net.attempt, j, r)) EXCEPT
                                  !.pc = "send", !.attempt = @ + 1]
                 ELSE net' = raise
    /\ UNCHANGED <<mainvars, mp, df, ft, cv>>

\* main.py line 18: urlopen sends the request (no spacing is kept)
JsonSend ==
    /\ net.pc = "send"
    /\ net.kind = "json"
    /\ net' = [net EXCEPT !.pc = "wait", !.have_prev = net.sent_any,
                          !.sent_any = TRUE, !.sent_gap = net.since_sent,
                          !.sent_min = 0, !.since_sent = 0]
    /\ UNCHANGED <<mainvars, mp, df, ft, cv>>

\* main.py lines 18-31: the parsed body is returned; a body that is not
\* JSON gives None at once (lines 29-30); an HTTPError, URLError or
\* TimeoutError is retried while i < retries - 1 and gives None after that
\* (lines 21-28); any other exception leaves the function
JsonReply ==
    /\ net.pc = "wait"
    /\ net.kind = "json"
    /\ \E r \in Replies, d \in Latencies :
        LET arrived == [Elapse(net, d) EXCEPT
                            !.last_reply = r,
                            !.since_429 = IF r = "429" THEN 0 ELSE @]
        IN  IF r \in OkReplies
            THEN net' = [arrived EXCEPT !.pc = "idle", !.result = "returned"]
            ELSE IF r = "badjson"
            THEN net' = [arrived EXCEPT !.pc = "idle", !.result = "returned_none"]
            ELSE IF r = "reset"
            THEN net' = [arrived EXCEPT !.pc = "idle", !.result = "raised"]
            ELSE IF net.attempt < retries - 1
                 THEN net' = [Elapse(arrived, backoff_sleep(net.attempt)) EXCEPT
                                  !.pc = "send", !.attempt = @ + 1]
                 ELSE net' = [arrived EXCEPT !.pc = "idle", !.result = "returned_none"]
    /\ UNCHANGED <<mainvars, mp, df, ft, cv>>

InitHttp ==
    /\ fs = [canon |-> NoFile, tmp |-> NoFile]
    /\ rss_out = << >>
    /\ pc = "off"
    /\ run = 0
    /\ LocalsInit
    /\ ObservedInit
    /\ served = Rec1
    /\ committed = NoFile
    /\ new_snap = << >>
    /\ mp = MpInit(SafeNoFile, "off")
    /\ df = DfOff
    /\ ft = FtOff
    /\ cv = CvOff
    /\ net \in {NetInit("raw"), NetInit("json")}

NextHttp == NetCall \/ RawSend \/ RawReply \/ JsonSend \/ JsonReply

HttpSpec == InitHttp /\ [][NextHttp]_vars

\* -------------------------------------- fetch_appdetails, query by query
\* The answer a locale gives to every attempt of a request during the call
FtReplies == {"ok", "nodata", "429", "500"}

FtEnvs == [replies : [Locales -> {ConstReplies(r) : r \in FtReplies}], rec : {Rec1}]

\* fetch_appdetails(appid, cc, lang) is entered.  queried lists the locales
\* asked so far and from holds the locale whose record is returned; the
\* program reads neither.
FtInit(env, cc, lang) ==
    [pc |-> "primary", env |-> env, cc |-> cc, lang |-> lang, i |-> 1,
     queried |-> << >>, ok |-> FALSE, from |-> << >>]

InitFetch ==
    /\ fs = [canon |-> NoFile, tmp |-> NoFile]
    /\ rss_out = << >>
    /\ pc = "off"
    /\ run = 0
    /\ LocalsInit
    /\ ObservedInit
    /\ served = Rec1
    /\ committed = NoFile
    /\ new_snap = << >>
    /\ mp = MpInit(SafeNoFile, "off")
    /\ net = NetOff
    /\ df = DfOff
    /\ cv = CvOff
    /\ \E env \in FtEnvs, loc \in Locales : ft = FtInit(env, loc[1], loc[2])

\* lines 134-135: the primary locale is asked, outside any try block; an
\* exception of fetch_appdetails_once leaves fetch_appdetails
FtPrimary ==
    /\ ft.pc = "primary"
    /\ LET r == fetch_appdetails_once(ft.env, ft.cc, ft.lang)
       IN  ft' = [ft EXCEPT
                    !.queried = Append(@, <<ft.cc, ft.lang>>),
                    !.pc = IF r.raised THEN "raised"
                           ELSE IF r.ok THEN "returned" ELSE "loop",
                    !.ok = Fetched(r),
                    !.from = IF Fetched(r) THEN << <<ft.cc, ft.lang>> >> ELSE << >>]
    /\ UNCHANGED <<mainvars, mp, net, df, cv>>

\* lines 136-141: one iteration of the loop over the fallback list; the
\* primary locale is skipped and an exception is swallowed
FtFallback ==
    /\ ft.pc = "loop"
    /\ ft.i <= Len(FallbackLocales)
    /\ LET loc == FallbackLocales[ft.i]
           r == fetch_appdetails_once(ft.env, loc[1], loc[2])
       IN  IF loc[1] = ft.cc /\ loc[2] = ft.lang
           THEN ft' = [ft EXCEPT !.i = @ + 1]
           ELSE IF Fetched(r)
           THEN ft' = [ft EXCEPT !.queried = Append(@, loc), !.pc = "returned",
                                 !.ok = TRUE, !.from = <<loc>>]
           ELSE ft' = [ft EXCEPT !.queried = Append(@, loc), !.i = @ + 1]
    /\ UNCHANGED <<mainvars, mp, net, df, cv>>

\* line 142: the list is exhausted; return False, None
FtNotFound ==
    /\ ft.pc = "loop"
    /\ ft.i > Len(FallbackLocales)
    /\ ft' = [ft EXCEPT !.pc = "returned", !.ok = FALSE]
    /\ UNCHANGED <<mainvars, mp, net, df, cv>>

NextFetch == FtPrimary \/ FtFallback \/ FtNotFound

FetchSpec == InitFetch /\ [][NextFetch]_vars

\* ------------------------------- the rolling phase over successive runs
\* Largest --crawl-batch followed here; it exceeds the longest listing but one.
MaxCoverBatch == 3

\* ceil(a / b) for b > 0
CeilDiv(a, b) == (a + b - 1) \div b

\* The listing is Listing(L) in every run and --crawl-batch is n in every
\* run; cursor is "crawl_cursor" of state.json as the last run that saved
\* left it, and crawl_cursor is state["crawl_cursor"] in the memory of the
\* run.  window holds, for the latest consecutive runs that attempted their
\* whole batch (at most as many as the coverage bound asks for), the
\* identifiers each one attempted; covered holds every identifier attempted
\* so far; cut tells that the deadline ended the loop of this run.  The
\* program reads none of the three.
CvInit(L, nn, cursor) ==
    [pc |-> "run", L |-> L, n |-> nn, cursor |-> cursor, crawl_cursor |-> 0,
     start |-> 0, batch |-> << >>, processed |-> 0, att |-> {}, cut |-> FALSE,
     window |-> << >>, covered |-> {}]

InitCover ==
    /\ fs = [canon |-> NoFile, tmp |-> NoFile]
    /\ rss_out = << >>
    /\ pc = "off"
    /\ run = 0
    /\ LocalsInit
    /\ ObservedInit
    /\ served = Rec1
    /\ committed = NoFile
    /\ new_snap = << >>
    /\ mp = MpInit(SafeNoFile, "off")
    /\ net = NetOff
    /\ df = DfOff
    /\ ft = FtOff
    /\ \E L \in 1..MaxId, nn \in 1..MaxCoverBatch, cursor \in 0..(MaxId - 1) :
          /\ cursor < L
          /\ cv = CvInit(L, nn, cursor)

\* the runs needed to cover the listing, as claimed
CoverBound(c) == CeilDiv(c.L, Min(c.n, c.L))

KeepLatest(w, k) == IF Len(w) > k THEN SubSeq(w, Len(w) - k + 1, Len(w)) ELSE w

\* the run is over: its locals are gone
CoverEnd(c) ==
    [c EXCEPT !.pc = "run", !.crawl_cursor = 0, !.start = 0, !.batch = << >>,
              !.processed = 0, !.att = {}, !.cut = FALSE]

\* lines 357-362: the run has loaded the saved cursor; its batch is cut at it
CoverStart ==
    /\ cv.pc = "run"
    /\ cv' = [cv EXCEPT !.pc = "loop",
                        !.crawl_cursor = cv.cursor,
                        !.start = cv.cursor % cv.L,
                        !.batch = rolling_batch(Listing(cv.L), cv.cursor % cv.L, cv.n),
                        !.processed = 0,
                        !.att = {},
                        !.cut = FALSE]
    /\ UNCHANGED <<mainvars, mp, net, df, ft>>

\* lines 363-375: one identifier of the batch is attempted
CoverFetch ==
    /\ cv.pc = "loop"
    /\ cv.processed < Len(cv.batch)
    /\ cv' = [cv EXCEPT !.processed = @ + 1,
                        !.att = @ \cup {cv.batch[cv.processed + 1]},
                        !.covered = @ \cup {cv.batch[cv.processed + 1]}]
    /\ UNCHANGED <<mainvars, mp, net, df, ft>>

\* lines 364-365 and 376: the loop is left at the deadline, before the end
\* of the batch (before the first identifier when the deadline has passed
\* at the first test); the cursor is set in memory
CoverDeadline ==
    /\ cv.pc = "loop"
    /\ cv.processed < Len(cv.batch)
    /\ cv' = [cv EXCEPT !.pc = "tail",
                        !.crawl_cursor = cursor_after(cv.start, cv.processed, cv.L),
                        !.cut = TRUE]
    /\ UNCHANGED <<mainvars, mp, net, df, ft>>

\* line 376 after the loop reached the end of the batch: the cursor is set
\* in memory
CoverDone ==
    /\ cv.pc = "loop"
    /\ cv.processed = Len(cv.batch)
    /\ cv' = [cv EXCEPT !.pc = "tail",
                        !.crawl_cursor = cursor_after(cv.start, cv.processed, cv.L)]
    /\ UNCHANGED <<mainvars, mp, net, df, ft>>

\* lines 379-383: the feeds are written and save_state writes the cursor of
\* line 376 to state.json
CoverSave ==
    /\ cv.pc = "tail"
    /\ cv' = [CoverEnd(cv) EXCEPT
                !.cursor = cv.crawl_cursor,
                !.window = IF cv.cut THEN << >>
                           ELSE KeepLatest(Append(cv.window, cv.att), CoverBound(cv))]
    /\ UNCHANGED <<mainvars, mp, net, df, ft>>

\* the run ends without line 383: an exception out of lines 371-375 or
\* 379-383, or the process is killed.  state.json keeps the cursor it had.
\* A run that has attempted its whole batch (the exception or the kill came
\* with or after the last identifier) has attempted it nevertheless.
CoverFail ==
    /\ cv.pc \in {"loop", "tail"}
    /\ cv' = [CoverEnd(cv) EXCEPT
                !.window = IF cv.cut \/ cv.processed < Len(cv.batch) THEN << >>
                           ELSE KeepLatest(Append(cv.window, cv.att), CoverBound(cv))]
    /\ UNCHANGED <<mainvars, mp, net, df, ft>>

NextCover ==
    CoverStart \/ CoverFetch \/ CoverDeadline \/ CoverDone \/ CoverSave \/ CoverFail

CoverSpec == InitCover /\ [][NextCover]_vars

\* ----------------------------------------------------------------- claims
Aids(events) == {events[i].aid : i \in 1..Len(events)}

NoRepeatedAid(events) ==
    \A i, j \in 1..Len(events) : i # j => events[i].aid # events[j].aid

AfterRolling == {"commit", "rss", "rss_write", "updates_rss", "save_open", "save_dump",
                 "save_replace", "done"}

\* C1: a rolling phase that the deadline did not cut short, with a batch
\* size n in 1..L, has attempted exactly the identifiers at the indices
\* (c + i) mod L, i = 0..n-1, of the listing, in that order.
RollingWindowOrder ==
    (pc = "commit" /\ ~truncated /\ n > 0 /\ n <= Len(appids))
        => attempted = [i \in 1..n |-> appids[((c0 + i - 1) % Len(appids)) + 1]]

\* C1 witness: a full batch that wrapped around the end of the listing
RollingWindowWrapped ==
    /\ pc = "commit"
    /\ ~truncated
    /\ n >= 2
    /\ n <= Len(appids)
    /\ c0 + n > Len(appids)
    /\ Len(attempted) = n
    /\ attempted[n] = appids[c0 + n - Len(appids)]

\* C2: after the rolling phase the cursor, in memory and then in the saved
\* file, is (c + k) mod L with k the number of identifiers attempted; failed
\* fetches are counted, identifiers skipped at the deadline are not.
CursorAdvance ==
    (pc \in AfterRolling /\ Len(appids) > 0)
        => /\ state.crawl_cursor = (c0 + Len(attempted)) % Len(appids)
           /\ pc = "done" =>
                fs.canon.content.crawl_cursor = (c0 + Len(attempted)) % Len(appids)

\* C2 witness: a saved run cut by the deadline after one attempt, and that
\* attempt failed (no snapshot was stored for it)
CursorAdvancedPastFailure ==
    /\ pc = "done"
    /\ truncated
    /\ Len(attempted) = 1
    /\ attempted[1] \notin DOMAIN state.snapshots
    /\ fs.canon.content.crawl_cursor = c0 + 1

\* C3: no identifier has two New events: not in state["items"], not in the
\* saved file, and not in this run's events put in front of state["items"].
NoDuplicateNewEvents ==
    /\ NoRepeatedAid(state.items)
    /\ NoRepeatedAid(fs.canon.content.items)
    /\ NoRepeatedAid(published_events \o state.items)

\* C3 witness: an identifier went through the new-arrival path and the
\* pending-retry path of one run and has its New event, beside an older one
HandledByBothPaths ==
    /\ pc = "rolling_init"
    /\ \E aid \in SeqToSet(new_ids) \cap SeqToSet(to_check) :
            aid \in Aids(published_events)
    /\ Len(published_events \o state.items) >= 2

\* C4: both event lists stay within their caps, and the commit step leaves
\* in each list the first cap entries of (events of this run, in order,
\* followed by the earlier entries, in order).
BoundedHistory ==
    /\ [](Len(state.items) <= max_items /\ Len(state.updates) <= max_updates)
    /\ [][(pc = "commit" /\ pc' = "rss") =>
            /\ \E k \in 0..max_items :
                  /\ k = max_items \/ k = Len(published_events \o state.items)
                  /\ k <= Len(published_events \o state.items)
                  /\ state'.items = SubSeq(published_events \o state.items, 1, k)
            /\ \E k \in 0..max_updates :
                  /\ k = max_updates \/ k = Len(update_events \o state.updates)
                  /\ k <= Len(update_events \o state.updates)
                  /\ state'.updates = SubSeq(update_events \o state.updates, 1, k)]_vars

\* C4 witness: the list was full, the run added one New event in front and
\* the oldest entry fell off the tail
OldestEventDropped ==
    /\ pc = "rss"
    /\ Len(items_before.items) = max_items
    /\ Len(state.items) = max_items
    /\ state.items[1].aid \notin Aids(items_before.items)
    /\ state.items[2] = items_before.items[1]
    /\ items_before.items[max_items].aid \notin Aids(state.items)

\* C5: the state file always holds exactly the last committed state and is
\* complete JSON, at every point of a run and after a kill at any point.
AtomicPersistence ==
    /\ fs.canon = committed
    /\ fs.canon.exists => fs.canon.complete

\* C5 witness: the process was killed while the temp file was half written,
\* over an earlier committed state
KilledDuringTempWrite ==
    /\ pc = "killed"
    /\ fs.tmp.exists
    /\ ~fs.tmp.complete
    /\ fs.canon.exists
    /\ DOMAIN fs.canon.content.seen # {}

\* C6 (as claimed): a run never creates a New event for an identifier whose
\* New event is already in the feed written by an earlier run.
NoReEmissionAfterCrash ==
    pc \in {"new", "retry", "rolling_init", "rolling", "commit"}
        => Aids(published_events) \cap Aids(rss_out) = {}

\* C7 (as claimed): a failed listing refresh does not end the run.
ListingFailureNonFatal == listing_failed => pc # "exit1"

\* C8 (as claimed): when an exception ends the run, what the run had
\* reached is what the state file holds.
ProgressSavedOnFailure ==
    pc = "crashed" =>
        /\ load_state(fs).crawl_cursor = state.crawl_cursor
        /\ load_state(fs).seen = state.seen
        /\ load_state(fs).pending = state.pending
        /\ load_state(fs).snapshots = state.snapshots

\* C9 (as claimed): an exception raised while one identifier is processed
\* does not end the run.
PerIdentifierErrorIsolated == item_error => pc # "crashed"

\* C10: a new arrival all of whose fetches in the run were answered 429 is
\* in the pending queue and has no New event, in memory and in the saved file.
RateLimitedArrivalPending ==
    \A aid \in limited :
        /\ aid \in SeqToSet(state.pending)
        /\ aid \notin Aids(published_events)
        /\ aid \notin Aids(state.items)
        /\ pc = "done" =>
              /\ aid \in SeqToSet(fs.canon.content.pending)
              /\ aid \notin Aids(fs.canon.content.items)

\* C10 witness: the rate-limited new arrival was also retried from the
\* pending queue in the same run and is still queued
RateLimitedArrivalRetried ==
    /\ pc = "rolling_init"
    /\ \E aid \in limited :
          /\ aid \in SeqToSet(to_check)
          /\ aid \in SeqToSet(state.pending)

\* C11: a step that adds a Changed event adds exactly one, for the
\* identifier whose snapshot the step extracted, and only when a snapshot
\* was stored for it before and the diff of the two, which the event
\* carries, is not empty; every extracted snapshot replaces the stored one;
\* and a snapshot equal to the stored one adds no Changed event.
ChangedOnlyOnRealChange ==
    [][/\ (update_events' # update_events /\ update_events' # << >>) =>
            /\ new_snap' # << >>
            /\ new_snap'[1].aid \in DOMAIN state.snapshots
            /\ diff_snap(state.snapshots[new_snap'[1].aid], new_snap'[1].snap) # << >>
            /\ update_events' = Append(update_events,
                    build_update_item(new_snap'[1].aid,
                        diff_snap(state.snapshots[new_snap'[1].aid], new_snap'[1].snap),
                        run))
       /\ new_snap' # << >> =>
            /\ new_snap'[1].aid \in DOMAIN state'.snapshots
            /\ state'.snapshots[new_snap'[1].aid] = new_snap'[1].snap
            /\ (/\ new_snap'[1].aid \in DOMAIN state.snapshots
                /\ state.snapshots[new_snap'[1].aid] = new_snap'[1].snap)
                    => update_events' = update_events]_vars

\* C11 witness: an identifier queued by the previous run, whose saved
\* snapshot has another language list, was resolved by the pending retry,
\* which emitted the one Changed event, and the rolling phase of the same
\* run has fetched the same record again without a second event
SameRecordFetchedAgain ==
    /\ pc = "rolling"
    /\ new_snap # << >>
    /\ new_snap[1].aid \in DOMAIN fs.canon.content.seen
    /\ state.seen[new_snap[1].aid] = Published(run)
    /\ new_snap[1].aid \in DOMAIN fs.canon.content.snapshots
    /\ fs.canon.content.snapshots[new_snap[1].aid].supported_languages
            # new_snap[1].snap.supported_languages
    /\ Len(update_events) = 1
    /\ update_events[1].aid = new_snap[1].aid

StateFileUnparseable == fs.canon.exists /\ ~fs.canon.complete
SafeStateFileUnparseable == mp.file.exists /\ ~mp.file.complete

\* C12: while the state file is unparseable a run gets no further than
\* load_state: it ends with the exception, nothing is fetched (no seen entry,
\* no snapshot, no database row), no event is created or written, and no
\* step writes the state file or its temp file.  This holds of main() and of
\* main.py, whose handler calls load_state again and fails the same way.
CorruptStateIsFatal ==
    /\ [](StateFileUnparseable =>
            /\ pc \in {"idle", "crashed"}
            /\ state = DefaultState
            /\ published_events = << >>
            /\ update_events = << >>
            /\ new_snap = << >>
            /\ rss_out = << >>)
    /\ [](SafeStateFileUnparseable =>
            /\ mp.pc \in {"idle", "handler", "failed", "killed"}
            /\ mp.db = EmptyMap
            /\ mp.log = [new |-> << >>, updates |-> << >>]
            /\ mp.st = SafeDefaultState)
    /\ [][(StateFileUnparseable => fs' = fs)
            /\ (SafeStateFileUnparseable => mp'.file = mp.file)]_vars

\* C12 witness: a run of main() has ended on the unparseable file
EndedOnCorruptState ==
    /\ pc = "crashed"
    /\ StateFileUnparseable
    /\ run = MaxRuns

CursorInRange(s) ==
    /\ s.crawl_cursor \in Nat
    /\ Len(s.applist) > 0 => s.crawl_cursor < Len(s.applist)
    /\ Len(s.applist) = 0 => s.crawl_cursor = 0

\* C13: the state file and the temp file always hold a cursor that is a
\* natural number below the length of the stored listing (0 for an empty
\* listing); and from line 315 on the cursor the run works with is the
\* loaded one, or 0 when the loaded one is not below the new listing's length.
CursorRange ==
    /\ CursorInRange(fs.canon.content)
    /\ CursorInRange(fs.tmp.content)
    /\ pc \in {"new", "retry", "rolling_init", "rolling"} =>
          /\ c0 = IF load_state(fs).crawl_cursor >= Len(appids) THEN 0
                  ELSE load_state(fs).crawl_cursor
          /\ state.crawl_cursor = c0
          /\ CursorInRange(state)

\* C13 witness: the listing shrank to the saved cursor's value and the run
\* restarted the cursor at 0
CursorResetOnShrunkListing ==
    /\ pc = "new"
    /\ Len(appids) > 0
    /\ load_state(fs).crawl_cursor = Len(appids)
    /\ state.crawl_cursor = 0

NoRepeat(q) == \A i, j \in 1..Len(q) : i # j => q[i] # q[j]

IsPublished(s, aid) == aid \in DOMAIN s.seen /\ s.seen[aid].published

QueuedUnpublished(s) ==
    /\ NoRepeat(s.pending)
    /\ \A aid \in SeqToSet(s.pending) : aid \in DOMAIN s.seen /\ ~s.seen[aid].published

\* C14: at the end of the pending-retry phase (line 354) every identifier of
\* the queue is either published and out of the queue, or still queued once:
\* the ones not sampled and the ones whose retry failed stay, the resolved
\* ones leave.  Outside that phase (a run that died inside it saves
\* nothing), and in every saved state, a queued identifier is unpublished;
\* and an identifier published in the saved state is never queued in a
\* state saved later.
PendingConservation ==
    /\ [](pc \notin {"retry", "crashed"} => QueuedUnpublished(state))
    /\ [](QueuedUnpublished(fs.canon.content))
    /\ [][(pc = "retry" /\ pc' = "rolling_init") =>
            /\ \A aid \in SeqToSet(state.pending) :
                  \/ IsPublished(state', aid) /\ aid \notin SeqToSet(state'.pending)
                  \/ ~IsPublished(state', aid) /\ aid \in SeqToSet(state'.pending)
            /\ SeqToSet(PyTail(state.pending, pending_retry)) \subseteq SeqToSet(state'.pending)
            /\ SeqToSet(remain) \subseteq SeqToSet(state'.pending)
            /\ SeqToSet(state'.pending) \subseteq SeqToSet(state.pending)]_vars
    /\ [][\A aid \in DOMAIN fs.canon.content.seen :
            fs.canon.content.seen[aid].published
                => /\ IsPublished(fs'.canon.content, aid)
                   /\ aid \notin SeqToSet(fs'.canon.content.pending)]_vars

\* C14 witness: of two queued identifiers one was sampled and resolved and
\* has left the queue, the other was not sampled and is still queued
ResolvedLeftUnsampledStayed ==
    /\ pc = "rolling_init"
    /\ Len(to_check) = 1
    /\ IsPublished(state, to_check[1])
    /\ to_check[1] \notin SeqToSet(state.pending)
    /\ Len(state.pending) = 1
    /\ ~IsPublished(state, state.pending[1])

\* C15: diff_snap returns, for every field, one tuple when the two values
\* differ and none when they are equal, and tuples for no other field; it is
\* empty for equal snapshots; and when price and description digest agree
\* and the language lists differ, it is one tuple, for supported_languages.
DiffExactness ==
    df.pc = "diffed" =>
        /\ \A k \in SeqToSet(SnapKeys) :
              Cardinality({i \in 1..Len(df.ch) : df.ch[i][1] = k})
                  = IF df.prev[k] # df.snap[k] THEN 1 ELSE 0
        /\ \A i \in 1..Len(df.ch) : df.ch[i][1] \in SeqToSet(SnapKeys)
        /\ df.prev = df.snap => df.ch = << >>
        /\ (/\ df.prev.price = df.snap.price
            /\ df.prev.short_description_hash = df.snap.short_description_hash
            /\ df.prev.supported_languages # df.snap.supported_languages)
              => Len(df.ch) = 1 /\ df.ch[1][1] = "supported_languages"

\* C15 witness: price 1000 on both sides, languages {english} before and
\* {english, japanese} after: one tuple, for the languages
OnlyLanguagesDiffer ==
    /\ df.pc = "diffed"
    /\ df.prev.price = "1000"
    /\ df.snap.price = "1000"
    /\ df.prev.supported_languages = <<"english">>
    /\ df.snap.supported_languages = <<"english", "japanese">>
    /\ df.ch = << <<"supported_languages", <<"english">>,
                    <<"english", ", ", "japanese">> >> >>

\* C16 (as claimed): once the state is loaded, every seen entry in memory
\* has the structured form {published, detected_at}.
LegacySeenTranslated ==
    pc \in Running =>
        \A aid \in DOMAIN state.seen :
            DOMAIN state.seen[aid] = {"published", "detected_at"}

\* C17 (as claimed): a rolling phase that the deadline did not cut short,
\* over a non-empty listing and with any batch size n > 0, has attempted
\* exactly n identifiers: those at the indices (c + i) mod L, i = 0..n-1.
BatchSizeAnyN ==
    (pc = "commit" /\ ~truncated /\ n > 0 /\ Len(appids) > 0)
        => /\ Len(attempted) = n
           /\ attempted = [i \in 1..n |-> appids[((c0 + i - 1) % Len(appids)) + 1]]

\* C18 (as claimed): every request of http_get_raw but the first leaves at
\* least the minimum gap in force after the departure of the one before it,
\* whatever that one's outcome; and once a request is over,
\* _last_request_ts is not older than that request's departure.
MinimumRequestSpacing ==
    net.kind = "raw" =>
        /\ (net.pc = "wait" /\ net.have_prev) => net.sent_gap >= net.sent_min
        /\ (net.pc \in {"idle", "send"} /\ net.sent_any)
              => net.since_last <= net.since_sent

\* C19 (as claimed): from every 429 answer on, also one to the last attempt,
\* _slow_mode_until is that answer's time plus SLOW_MODE_SECONDS, and every
\* request sent inside that window is spaced by RATE_SLOW_SEC.
SlowModeOnEvery429 ==
    (net.kind = "raw" /\ net.since_429 < SLOW_MODE_SECONDS) =>
        /\ net.slow_left = SLOW_MODE_SECONDS - net.since_429
        /\ net.pc = "wait" => net.sent_min = RATE_SLOW_SEC

\* the failures the claim allows a retry after: RateLimited (429) and
\* Transient (server error, connection failure, timeout)
RateLimitedOrTransient == {"429", "503", "500", "urlerr", "timeout", "reset"}

\* C20 (as claimed): a logical request makes at most 5 attempts; an attempt
\* is repeated only after a RateLimited or Transient failure, never after an
\* answer or another error; every answer or error either ends the request
\* or starts the next attempt, and a request under way can always take its
\* next step; a request that ended has returned the body of the answer or
\* has reported the failure (exception, or None in main.py).
BoundedRetry ==
    /\ [](net.pc # "off" =>
            /\ net.attempt + 1 <= 5
            /\ net.pc \in {"send", "wait"} => ENABLED NextHttp
            /\ (net.pc = "idle" /\ net.calls > 0) =>
                  /\ net.result \in {"returned", "raised", "returned_none"}
                  /\ net.last_reply \in OkReplies => net.result = "returned"
                  /\ net.result = "returned" => net.last_reply \in OkReplies \cup {"badjson"})
    /\ [][net.pc # "off" =>
            /\ net'.attempt = net.attempt + 1
                  => net'.last_reply \in RateLimitedOrTransient
            /\ (net.pc = "wait" /\ net' # net) =>
                  \/ net'.pc = "idle"
                  \/ net'.pc = "send" /\ net'.attempt = net.attempt + 1]_vars

\* the query of one locale returns a record
Succeeds(env, loc) == Fetched(fetch_appdetails_once(env, loc[1], loc[2]))

\* the primary locale, then the fallback list without the primary
QueryOrder(cc, lang) ==
    << <<cc, lang>> >> \o SelectSeq(FallbackLocales, LAMBDA l : l # <<cc, lang>>)

\* the call agrees, step by step, with what fetch_appdetails computes
FetchStepsAgree ==
    ft.pc \in {"returned", "raised"} =>
        LET r == fetch_appdetails(ft.env, ft.cc, ft.lang)
        IN  /\ r.raised <=> ft.pc = "raised"
            /\ Fetched(r) <=> ft.ok

\* C21 (as claimed): a call of fetch_appdetails ends with a record or with
\* not-found, never with an exception; it has asked the primary locale and
\* then, while no query succeeded, the fallback locales in their order
\* without the primary; it returns the record of the first locale that
\* succeeds, and not-found only when every one of them failed.
LocaleFallback ==
    ft.pc \in {"returned", "raised"} =>
        LET order == QueryOrder(ft.cc, ft.lang)
            good == {k \in 1..Len(order) : Succeeds(ft.env, order[k])}
        IN  /\ ft.pc = "returned"
            /\ IF good = {}
               THEN ~ft.ok /\ ft.queried = order
               ELSE LET k == CHOOSE x \in good : \A y \in good : x <= y
                    IN  /\ ft.ok
                        /\ ft.from = <<order[k]>>
                        /\ ft.queried = SubSeq(order, 1, k)

\* C22: within a run and from one saved state to the next, an entry of the
\* seen map with published = true keeps its value, and an unpublished entry
\* either keeps its value or becomes the published entry stamped by the
\* current run; so an entry changes at most once after its creation, in the
\* run that first fetches the identifier successfully.
SeenEntryMonotone ==
    /\ [][pc' \notin {"killed", "idle"} =>
            \A aid \in DOMAIN state.seen :
                /\ aid \in DOMAIN state'.seen
                /\ state.seen[aid].published => state'.seen[aid] = state.seen[aid]
                /\ state'.seen[aid] \in {state.seen[aid], Published(run)}]_vars
    /\ [][\A aid \in DOMAIN fs.canon.content.seen :
                /\ aid \in DOMAIN fs'.canon.content.seen
                /\ fs.canon.content.seen[aid].published
                      => fs'.canon.content.seen[aid] = fs.canon.content.seen[aid]
                /\ fs'.canon.content.seen[aid]
                      \in {fs.canon.content.seen[aid], Published(run)}]_vars
    /\ [][(pc = "idle" /\ pc' = "list") => state'.seen = fs.canon.content.seen]_vars

\* C22 witness: an identifier published by the first run is in the listing
\* of the second run, whose rolling phase has fetched it successfully, and
\* its entry is still the one the first run stamped
PublishedEntryKept ==
    /\ pc = "rolling"
    /\ run = 2
    /\ new_snap # << >>
    /\ new_snap[1].aid \in DOMAIN fs.canon.content.seen
    /\ fs.canon.content.seen[new_snap[1].aid] = Published(1)
    /\ state.seen[new_snap[1].aid] = Published(1)

\* C23 (as claimed): with the listing and the batch size fixed, any
\* ceil(L / min(n, L)) consecutive runs that the deadline did not cut have
\* together attempted every identifier of the listing.
RollingCoverageBound ==
    (cv.pc = "run" /\ Len(cv.window) = CoverBound(cv))
        => UNION SeqToSet(cv.window) = SeqToSet(Listing(cv.L))

\* the part of C23 without a bound: when again and again a run attempts at
\* least one identifier and saves its cursor, every identifier is attempted
\* at some time
RollingCoverageEventually ==
    []<><<CoverSave /\ cv.processed >= 1>>_vars
        => <>(cv.covered = SeqToSet(Listing(cv.L)))

\* C24 (as claimed): the pending-retry loop of a run fetches no identifier
\* that the new-arrival loop of the same run has put in the queue.
RetryInLaterRun ==
    pc \in {"retry", "rolling_init"} =>
        \A i \in 1..Len(to_check) :
            i < idx => to_check[i] \notin SeqToSet(new_ids)

\* two snapshots that differ at most in the order and the repeats of a list
SemanticallyEqual(a, b) ==
    /\ a.price = b.price
    /\ a.short_description_hash = b.short_description_hash
    /\ SeqToSet(a.supported_languages) = SeqToSet(b.supported_languages)

\* C25: on the snapshots the program compares (extract_snapshot's results,
\* fresh or stored), diff_snap gives no tuple for supported_languages when
\* the two records list the same languages, in whatever order and with
\* whatever repeats, and one when they do not; and its result is empty
\* exactly when the two snapshots are semantically equal.
SetComparisonInDiff ==
    df.pc = "diffed" =>
        /\ SeqToSet(df.prev_data.data.langs) = SeqToSet(df.data.data.langs)
              <=> \A i \in 1..Len(df.ch) : df.ch[i][1] # "supported_languages"
        /\ SeqToSet(df.prev.supported_languages) = SeqToSet(df.snap.supported_languages)
              => \A i \in 1..Len(df.ch) : df.ch[i][1] # "supported_languages"
        /\ df.ch = << >> <=> SemanticallyEqual(df.prev, df.snap)

\* C25 witness: the earlier record lists japanese before english, the new
\* one english before japanese and the price is the same: the two
\* snapshots have been compared and no change was found
SameLanguagesOtherOrder ==
    /\ df.pc = "diffed"
    /\ df.prev_data.data.langs = <<"japanese", "english">>
    /\ df.data.data.langs = <<"english", "japanese">>
    /\ df.prev_data.data.price = df.data.data.price
    /\ df.prev_data.desc = df.data.desc
    /\ df.ch = << >>

\* C26: the new-arrival loop runs over at most max_new identifiers and the
\* pending-retry loop over at most pending_retry, neither list has a repeat
\* and each loop handles its list entry by entry, once; while the
\* new-arrival loop runs no pending retry and no rolling fetch of the run
\* has happened, while the pending-retry loop runs no rolling fetch has
\* happened; a loop is left for the next phase only when its list is
\* exhausted, and is not entered again in the run.
PhaseCapsAndOrder ==
    /\ [](pc \in {"new", "retry", "rolling_init"} =>
            /\ Len(new_ids) <= max_new
            /\ NoRepeat(new_ids)
            /\ Len(to_check) <= pending_retry
            /\ NoRepeat(to_check))
    /\ [](pc = "new" => to_check = << >> /\ attempted = << >>)
    /\ [](pc = "retry" => attempted = << >>)
    /\ [][/\ (pc = "new" /\ pc' = "new") =>
                idx' = idx + 1 /\ idx <= Len(new_ids) /\ new_ids' = new_ids
          /\ (pc = "retry" /\ pc' = "retry") =>
                idx' = idx + 1 /\ idx <= Len(to_check) /\ to_check' = to_check
          /\ (pc = "new" /\ pc' \in Running \ {"new"}) =>
                idx > Len(new_ids) /\ pc' \in {"retry", "rolling_init"}
          /\ (pc = "retry" /\ pc' \in Running \ {"retry"}) =>
                idx > Len(to_check) /\ pc' = "rolling_init"
          /\ (pc # "new" /\ pc' = "new") => pc = "list"
          /\ (pc # "retry" /\ pc' = "retry") => pc = "new"
          /\ (attempted' # attempted /\ attempted' # << >>) => pc = "rolling"]_vars

\* C26 witness: a first run whose listing has more new identifiers than
\* max_new and whose queue grew longer than pending_retry: both loops ran
\* over a capped list and the identifier left out of the retry is still queued
BothCapsApplied ==
    /\ pc = "rolling_init"
    /\ ~fs.canon.exists
    /\ Len(appids) > max_new
    /\ Len(new_ids) = max_new
    /\ Len(to_check) = pending_retry
    /\ idx > Len(to_check)
    /\ \E aid \in SeqToSet(new_ids) :
          aid \notin SeqToSet(to_check) /\ aid \in SeqToSet(state.pending)

Consistent(s) ==
    /\ \A i, j \in 1..Len(s.pending) : i # j => s.pending[i] # s.pending[j]
    /\ \A aid \in SeqToSet(s.pending) :
          aid \in DOMAIN s.seen /\ s.seen[aid].published = FALSE
    /\ \A aid \in DOMAIN s.seen :
          s.seen[aid].published => aid \in DOMAIN s.snapshots

\* C27: the state file, and the temp file once it is completely written,
\* hold a state whose pending queue has no identifier twice, whose queued
\* identifiers all have an unpublished seen entry, and in which every
\* published seen entry has a stored snapshot; and so does the state a run
\* is about to save.
StateConsistency ==
    /\ Consistent(fs.canon.content)
    /\ fs.tmp.complete => Consistent(fs.tmp.content)
    /\ pc \in {"commit", "rss", "rss_write", "updates_rss", "save_open",
               "save_dump", "save_replace", "done"} => Consistent(state)

\* C27 witness: the second run has saved a state with a queued identifier,
\* an identifier it published, with its snapshot, and one that the first run
\* published
ConsistentStateSaved ==
    /\ pc = "done"
    /\ run = 2
    /\ fs.canon.content = state
    /\ state.pending # << >>
    /\ \E aid \in DOMAIN state.seen :
          /\ state.seen[aid] = Published(2)
          /\ aid \in DOMAIN state.snapshots
    /\ \E aid \in DOMAIN state.seen : state.seen[aid] = Published(1)

\* C28: a step of the rolling phase (lines 357-376) leaves the seen map, the
\* pending queue, the New events of the run and the stored event lists as
\* they are: it changes at most the snapshots, the Changed events of the run
\* and the cursor.  An identifier the phase fetches successfully keeps its
\* seen entry and gets no New event.
RollingFrame ==
    [][(pc \in {"rolling_init", "rolling"} /\ pc' \in {"rolling", "commit"}) =>
          /\ state'.seen = state.seen
          /\ state'.pending = state.pending
          /\ state'.items = state.items
          /\ state'.updates = state.updates
          /\ state'.applist = state.applist
          /\ published_events' = published_events
          /\ new_snap' # << >> =>
                /\ new_snap'[1].aid \in DOMAIN state'.snapshots
                /\ new_snap'[1].aid \in DOMAIN state.seen
                      => state'.seen[new_snap'[1].aid] = state.seen[new_snap'[1].aid]
                /\ new_snap'[1].aid \in Aids(published_events')
                      => new_snap'[1].aid \in Aids(published_events)]_vars

\* C28 witness: an identifier recorded by the baseline run, unpublished and
\* not queued, was fetched successfully by the rolling phase of the next
\* run: its snapshot is stored, it is still unpublished and has no New event
BaselineEntryFetchedByRolling ==
    /\ pc = "rolling"
    /\ new_snap # << >>
    /\ new_snap[1].aid \in DOMAIN fs.canon.content.seen
    /\ new_snap[1].aid \notin DOMAIN fs.canon.content.snapshots
    /\ new_snap[1].aid \notin SeqToSet(state.pending)
    /\ state.seen[new_snap[1].aid] = Unpublished
    /\ state.snapshots[new_snap[1].aid] = new_snap[1].snap
    /\ new_snap[1].aid \notin Aids(published_events)
    /\ new_snap[1].aid \notin Aids(state.items)

====
